---- MODULE Spec2Model ----
(***************************************************************************)
(* Model of the PostgreSQL plugin orchestrator                             *)
(* (plugin_postgresql/plugin.ts): PluginFactory.#setup, the phase helpers  *)
(* it awaits, and the composite teardown built by #buildTeardown.          *)
(*                                                                         *)
(* Every setup call c has its own frame (config, locals, promise) and its  *)
(* own backing resources.  The strategies the orchestrator delegates to    *)
(* (ConnectionStrategy, DockerServerStrategy, Server.init,                 *)
(* DatabaseStrategy, SqlMigrationStrategy, SeedStrategy) are collaborators:*)
(* a call to one of them is a start step followed by a return step that    *)
(* either resolves or throws.                                              *)
(***************************************************************************)
EXTENDS Integers, Sequences, FiniteSets, TLC

\* ------------------------------------------------------------------------
\* Bounds
\* ------------------------------------------------------------------------

\* How many times the caller invokes the composite teardown of one call.
MaxTeardownCalls == 2

\* Setup calls made on the shared plugin instance.
Calls == {1, 2}

\* The setup call that runs under Spec.
SingleCall == {1}

\* Files the walk of the deprecation check yields, and tags per file.
MaxFiles == 2
MaxTagsPerFile == 2

\* Errors a collaborator may throw.
CollaboratorErrors == {"E1", "E2"}

\* Messages of the errors raised by the exhaustive strategy dispatch.
UnknownStrategyError == "Unknown strategy"
UnknownMigrationStrategyError == "Unknown migration strategy"

\* Result lists the migration and seed collaborators may return.
MigrationResults == {<<>>, <<"m1">>, <<"m1", "m2">>}
SeedResults == {<<>>, <<"A">>, <<"A", "B">>}

\* Values Math.random().toString(36).substring(2) may yield.
RandomStrings == {"r1", "r2"}

\* config.port ?? 0
DefaultPort == 0

\* ------------------------------------------------------------------------
\* Data shapes
\* ------------------------------------------------------------------------

\* The optional fields of a ServerConfig: <<>> is an absent (undefined)
\* field, <<v>> a field given as v.
NoOptions ==
  [ databaseName |-> <<>>, databaseNamePrefix |-> <<>>,
    databaseServerNamePrefix |-> <<>>, port |-> <<>>, user |-> <<>>,
    password |-> <<>>, version |-> <<>> ]

\* Every field given with a truthy value.
GivenOptions ==
  [ databaseName |-> <<"app">>, databaseNamePrefix |-> <<"db">>,
    databaseServerNamePrefix |-> <<"srv">>, port |-> <<5432>>,
    user |-> <<"admin">>, password |-> <<"secret">>, version |-> <<"15">> ]

\* Every field given with a falsy value that is not undefined.
FalsyOptions ==
  [ databaseName |-> <<"">>, databaseNamePrefix |-> <<"">>,
    databaseServerNamePrefix |-> <<"">>, port |-> <<0>>, user |-> <<"">>,
    password |-> <<"">>, version |-> <<"">> ]

\* Only the two name prefixes given.
PrefixOptions ==
  [ NoOptions EXCEPT !.databaseNamePrefix = <<"db">>,
                     !.databaseServerNamePrefix = <<"srv">> ]

ServerOptions == {NoOptions, GivenOptions, FalsyOptions, PrefixOptions}

\* config.server: a Server instance, or a ServerConfig with a strategy tag
\* and its optional fields.
ServerValues ==
  { [isServer |-> TRUE, strategy |-> "undefined", options |-> NoOptions],
    [isServer |-> FALSE, strategy |-> "OTHER", options |-> NoOptions] }
  \cup { [isServer |-> FALSE, strategy |-> "DOCKER", options |-> o] :
           o \in ServerOptions }

\* config.seed: tables in the order of the mapping's keys, each with its
\* rows in order.  The empty mapping {} is a present (truthy) value.
SeedMappings ==
  { <<>>,
    << [table |-> "users", rows |-> <<"u2", "u1">>],
       [table |-> "accounts", rows |-> <<"a1">>] >> }

\* PluginConfig: database and seed are present or absent, migrate is absent
\* or carries a strategy tag; seedData is the mapping of a present seed.
PluginConfig ==
  { cfg \in [ server : ServerValues,
              database : BOOLEAN,
              migrate : {"undefined", "SQL", "OTHER"},
              seed : BOOLEAN,
              seedData : SeedMappings ] :
      ~cfg.seed => cfg.seedData = <<>> }

NoConfig ==
  [ server |-> [isServer |-> FALSE, strategy |-> "undefined",
                options |-> NoOptions],
    database |-> FALSE, migrate |-> "undefined", seed |-> FALSE,
    seedData |-> <<>> ]

\* Server handles: which call acquired it and which strategy produced it.
NoHandle == [call |-> 0, from |-> "none"]
Handle(c, from) == [call |-> c, from |-> from]

\* server.connection: the connection of a server handle.
connection(server) == [server |-> server]

\* What #setup has handed to the migration and seed strategies so far.
NothingHanded ==
  [migrate |-> [migrate |-> "undefined", connection |-> connection(NoHandle)],
   seed |-> [seed |-> <<>>, connection |-> connection(NoHandle)]]

\* Teardown actions: the phase that registered it, what it releases, and
\* the call whose resource it releases.
TeardownAction(c, phase, effect) ==
  [phase |-> phase, effect |-> effect, call |-> c]

NoTeardown == [phase |-> "none", effect |-> "none", call |-> 0]

\* PluginInstance<Server>
NoSetup == [output |-> NoHandle, teardown |-> NoTeardown]

\* DatabaseOutput
NoDatabaseOutput == [server |-> NoHandle, teardown |-> NoTeardown]

\* MigrationOutput / SeedOutput; defined = FALSE stands for an absent value.
Undefined == [defined |-> FALSE, results |-> <<>>]
Results(r) == [defined |-> TRUE, results |-> r]

\* What the database, migration and seed strategies have returned so far.
NothingReturned ==
  [database |-> NoHandle, migrate |-> Undefined, seed |-> Undefined]

\* The values drawn from Math.random() by #setupNewDatabaseServer; "" is a
\* draw that was not made.
NoDraws == [suffix |-> "", user |-> "", password |-> ""]

\* PluginResult
NoOutput == [server |-> NoHandle, migrate |-> Undefined, seed |-> Undefined]

\* The promise returned by setup.
Pending ==
  [status |-> "pending", teardown |-> <<>>, output |-> NoOutput,
   error |-> "none"]
Resolved(teardown, output) ==
  [status |-> "resolved", teardown |-> teardown, output |-> output,
   error |-> "none"]
Rejected(e) ==
  [status |-> "rejected", teardown |-> <<>>, output |-> NoOutput,
   error |-> e]

Phases == <<"server", "init", "database", "migrate", "seed">>

Collaborators ==
  {"ConnectionStrategy", "DockerServerStrategy", "init", "DatabaseStrategy",
   "SqlMigrationStrategy", "SeedStrategy"}

Event(phase, ev, err) == [phase |-> phase, ev |-> ev, err |-> err]

Range(s) == {s[i] : i \in 1..Len(s)}

\* ------------------------------------------------------------------------
\* State
\* ------------------------------------------------------------------------

VARIABLES
  config,         \* config[c]: the PluginConfig passed to setup call c
  pc,             \* pc[c]: position of call c inside #setup
  setup,          \* local `setup` of #setup
  dbOut,          \* local { server, teardown: teardownDatabase } of #setup
  composite,      \* the list captured by #buildTeardown in the return value
  migrateOut,     \* output.migrate once the migration phase has completed
  result,         \* the promise #setup returned
  serverState,    \* the backing server of call c: none / running / stopped
  databaseState,  \* the database created for call c: none / created / dropped
  inited,         \* handles on which init() has completed
  calls,          \* how often each collaborator was called by call c
  trace,          \* phase events of call c, in order
  tdCalls,        \* invocations of the composite teardown by the caller
  tdIndex,        \* position of the running invocation in its for loop
  tdAttempted,    \* phases whose action the running/last invocation started
  tdStatus,       \* idle / running / resolved / rejected
  runs,           \* how often each phase's teardown action was run
  tdLog,          \* every run of a teardown action by the composite of call c
  handed,         \* arguments #setup gave to the migration and seed strategies
  returned,       \* what the database, migration and seed strategies returned
  random,         \* the Math.random() draws of #setupNewDatabaseServer
  dockerConfig,   \* the configs given to new DockerServerStrategy(), in order
  buildPc,        \* build script: position in the script
  pkgToBuild,     \* build script: first positional argument, <<>> when absent
  cwdIsRoot,      \* build script: whether it was started in the repository root
  outDirs,        \* build script: state of npm/<package name> of each package
  filteredPackages, \* build script: indices of the packages to build
  buildIndex,     \* build script: position of the build loop
  cleanupIndex,   \* build script: position of the cleanup loop
  built,          \* build script: packages built for publish, in order
  cleaned,        \* build script: packages the cleanup loop has removed
                  \* node_modules from or tried to, in order
  buildError,     \* build script: the uncaught error that ended it
  checkPc,        \* deprecation check: position in the script
  files,          \* deprecation check: per walked file, the tags doc() yields
  VERSION,        \* deprecation check: the current version
  FAIL_FAST,      \* deprecation check: whether --fail-fast was given
  shouldFail,     \* deprecation check: the flag of the same name
  fileIndex,      \* deprecation check: the file being examined
  tagIndex,       \* deprecation check: the next tag of that file
  examined,       \* deprecation check: <<file, tag>> positions examined
  warned,         \* deprecation check: positions console.warn was called for
  exitCode        \* deprecation check: -1 while running, else the exit status

frameVars == <<config, pc, setup, dbOut, composite, migrateOut, result>>
worldVars == <<serverState, databaseState, inited, calls, trace>>
teardownVars == <<tdCalls, tdIndex, tdAttempted, tdStatus, runs, tdLog>>
historyVars == <<handed, returned, random, dockerConfig>>
pluginVars == <<frameVars, worldVars, teardownVars, historyVars>>
buildVars ==
  <<buildPc, pkgToBuild, cwdIsRoot, outDirs, filteredPackages, buildIndex,
    cleanupIndex, built, cleaned, buildError>>
checkVars ==
  <<checkPc, files, VERSION, FAIL_FAST, shouldFail, fileIndex, tagIndex,
    examined, warned, exitCode>>
toolVars == <<buildVars, checkVars>>
vars == <<pluginVars, toolVars>>

InitPlugin ==
  /\ config = [c \in Calls |-> NoConfig]
  /\ pc = [c \in Calls |-> "idle"]
  /\ setup = [c \in Calls |-> NoSetup]
  /\ dbOut = [c \in Calls |-> NoDatabaseOutput]
  /\ composite = [c \in Calls |-> <<>>]
  /\ migrateOut = [c \in Calls |-> Undefined]
  /\ result = [c \in Calls |-> Pending]
  /\ serverState = [c \in Calls |-> "none"]
  /\ databaseState = [c \in Calls |-> "none"]
  /\ inited = [c \in Calls |-> {}]
  /\ calls = [c \in Calls |-> [k \in Collaborators |-> 0]]
  /\ trace = [c \in Calls |-> <<>>]
  /\ tdCalls = [c \in Calls |-> 0]
  /\ tdIndex = [c \in Calls |-> 0]
  /\ tdAttempted = [c \in Calls |-> {}]
  /\ tdStatus = [c \in Calls |-> "idle"]
  /\ runs = [c \in Calls |-> [p \in {"server", "database"} |-> 0]]
  /\ tdLog = [c \in Calls |-> <<>>]
  /\ handed = [c \in Calls |-> NothingHanded]
  /\ returned = [c \in Calls |-> NothingReturned]
  /\ random = [c \in Calls |-> NoDraws]
  /\ dockerConfig = [c \in Calls |-> <<>>]

\* The build script has not been run.
BuildNotRun ==
  /\ buildPc = "notRun"
  /\ pkgToBuild = <<>>
  /\ cwdIsRoot = TRUE
  /\ outDirs = <<"absent", "absent">>
  /\ filteredPackages = <<>>
  /\ buildIndex = 0
  /\ cleanupIndex = 0
  /\ built = <<>>
  /\ cleaned = <<>>
  /\ buildError = "none"

\* The deprecation check has not been run.
CheckNotRun ==
  /\ checkPc = "notRun"
  /\ files = <<>>
  /\ VERSION = <<0, 0, 0>>
  /\ FAIL_FAST = FALSE
  /\ shouldFail = FALSE
  /\ fileIndex = 0
  /\ tagIndex = 0
  /\ examined = <<>>
  /\ warned = <<>>
  /\ exitCode = -1

Init == InitPlugin /\ BuildNotRun /\ CheckNotRun

\* ------------------------------------------------------------------------
\* Collaborators and helpers
\* ------------------------------------------------------------------------

\* assertNever(value, message): throws an error carrying the message.
assertNever(message) == message

\* ConnectionStrategy.setup(): wraps the caller's server; teardown is a no-op.
ConnectionStrategySetup(c) ==
  [output |-> Handle(c, "supplied"),
   teardown |-> TeardownAction(c, "server", "none")]

\* DockerServerStrategy.setup(): a started container and the action that
\* stops it.
DockerServerStrategySetup(c) ==
  [output |-> Handle(c, "docker"),
   teardown |-> TeardownAction(c, "server", "stopServer")]

\* DatabaseStrategy.run(): a handle bound to the created database and the
\* action that drops it.
DatabaseStrategyRun(c) ==
  [server |-> Handle(c, "database"),
   teardown |-> TeardownAction(c, "database", "dropDatabase")]

\* What a teardown action may do when run: the no-op closures always
\* resolve, a release action of a collaborator resolves or throws.
TeardownOutcomes(a) == IF a.effect = "none" THEN {TRUE} ELSE BOOLEAN

Log(c, events) == trace' = [trace EXCEPT ![c] = @ \o events]

Called(c, k) == calls' = [calls EXCEPT ![c][k] = @ + 1]

\* ------------------------------------------------------------------------
\* PluginFactory
\* ------------------------------------------------------------------------

\* value || default, on an optional string: the default replaces an absent
\* and an empty value.
OrElse_Nullish(value, default) ==
  IF value = <<>> THEN default ELSE value[1]

OrElse(value, default) ==
  IF value = <<>> \/ value = <<"">> THEN default ELSE value[1]

\* value ?? default: the default replaces an absent value only.
Nullish(value, default) ==
  IF value = <<>> THEN default ELSE value[1]

\* The Math.random() draws #setupNewDatabaseServer makes for options o: the
\* suffix always, user and password only when the option is absent.
Draws(o) ==
  [ suffix : RandomStrings,
    user : IF o.user = <<>> THEN RandomStrings ELSE {""},
    password : IF o.password = <<>> THEN RandomStrings ELSE {""} ]

\* The dockerConfig literal of #setupNewDatabaseServer for options o and
\* draws d.
DockerServerStrategyConfig(o, d) ==
  [ serverName |->
      OrElse(o.databaseServerNamePrefix, "postgres") \o "-" \o d.suffix,
    port |-> Nullish(o.port, DefaultPort),
    user |-> Nullish(o.user, d.user),
    password |-> Nullish(o.password, d.password),
    database |->
      OrElse(o.databaseName,
             OrElse(o.databaseNamePrefix, "postgres") \o "-" \o d.suffix),
    version |-> OrElse(o.version, "latest") ]

\* new SqlMigrationStrategy(config.migrate, server.connection)
newSqlMigrationStrategy(cfg, server) ==
  [migrate |-> cfg.migrate, connection |-> connection(server)]

\* new SeedStrategy(config.seed, server.connection)
newSeedStrategy_TablesReversed(cfg, server) ==
  [seed |-> [i \in 1..Len(cfg.seedData) |->
               cfg.seedData[Len(cfg.seedData) + 1 - i]],
   connection |-> connection(server)]

newSeedStrategy(cfg, server) ==
  [seed |-> cfg.seedData, connection |-> connection(server)]

\* config.server instanceof Server
instanceofServer(cfg) == cfg.server.isServer

\* !config.database, !config.migrate, !config.seed
hasDatabase(cfg) == cfg.database

hasMigrate(cfg) == cfg.migrate # "undefined"

hasSeed_Always(cfg) == TRUE

hasSeed(cfg) == cfg.seed

\* `await <phase>`: #setup is suspended until the collaborator settles.
Awaiting ==
  [server |-> "server.await", init |-> "init.await",
   database |-> "database.await", migrate |-> "migrate.await",
   seed |-> "seed.await"]

await_MigrationNotAwaited(phase) ==
  IF phase = "migrate" THEN "seed" ELSE Awaiting[phase]

await_NeverResumed(phase) ==
  IF phase = "init" THEN "init.suspended" ELSE Awaiting[phase]

await(phase) == Awaiting[phase]

\* #setupExistingDatabaseServer: new ConnectionStrategy(server).setup()
setupExistingDatabaseServer_Stopping(c) ==
  [output |-> Handle(c, "supplied"),
   teardown |-> TeardownAction(c, "server", "stopServer")]

setupExistingDatabaseServer(c) == ConnectionStrategySetup(c)

\* #buildTeardown: the closure is its captured list; TeardownStep runs it.
buildTeardown_ServerTwice(teardowns) == teardowns \o <<teardowns[2]>>

buildTeardown_Reversed(teardowns) == <<teardowns[2], teardowns[1]>>

buildTeardown_ServerOnly(teardowns) == <<teardowns[2]>>

buildTeardown(teardowns) == teardowns

\* The async function #setup throws: its promise rejects with the error.
\* Its locals (setup, teardown, teardownDatabase) go out of scope.
Reject_RunsTeardowns(c, e) ==
  /\ pc' = [pc EXCEPT ![c] = "Failed"]
  /\ result' = [result EXCEPT ![c] = Rejected(e)]
  /\ runs' = [runs EXCEPT ![c] =
       [p \in {"server", "database"} |->
          IF \/ p = "server" /\ setup[c] # NoSetup
             \/ p = "database" /\ dbOut[c] # NoDatabaseOutput
          THEN @[p] + 1 ELSE @[p]]]
  /\ UNCHANGED <<tdCalls, tdIndex, tdAttempted, tdStatus, tdLog>>

Reject_Generic(c, e) ==
  /\ pc' = [pc EXCEPT ![c] = "Failed"]
  /\ result' = [result EXCEPT ![c] = Rejected("Setup failed")]
  /\ UNCHANGED teardownVars

Reject_Retry(c, e) ==
  /\ pc' = [pc EXCEPT ![c] =
       IF pc[c] = "seed.await" THEN "seed" ELSE "Failed"]
  /\ result' = [result EXCEPT ![c] =
       IF pc[c] = "seed.await" THEN @ ELSE Rejected(e)]
  /\ UNCHANGED teardownVars

Reject(c, e) ==
  /\ pc' = [pc EXCEPT ![c] = "Failed"]
  /\ result' = [result EXCEPT ![c] = Rejected(e)]
  /\ UNCHANGED teardownVars

\* #setup returns: its promise resolves with { teardown, output }.
Resolve_OriginalServer(c, seedOut) ==
  /\ pc' = [pc EXCEPT ![c] = "Ready"]
  /\ result' = [result EXCEPT ![c] =
       Resolved(composite[c],
                [server |-> setup[c].output,
                 migrate |-> migrateOut[c],
                 seed |-> seedOut])]
  /\ UNCHANGED teardownVars

Resolve_SharedTeardown(c, seedOut) ==
  /\ pc' = [pc EXCEPT ![c] = "Ready"]
  /\ result' = [result EXCEPT ![c] =
       Resolved(composite[1],
                [server |-> dbOut[c].server,
                 migrate |-> migrateOut[c],
                 seed |-> seedOut])]
  /\ UNCHANGED teardownVars

Resolve(c, seedOut) ==
  /\ pc' = [pc EXCEPT ![c] = "Ready"]
  /\ result' = [result EXCEPT ![c] =
       Resolved(composite[c],
                [server |-> dbOut[c].server,
                 migrate |-> migrateOut[c],
                 seed |-> seedOut])]
  /\ UNCHANGED teardownVars

\* The caller calls plugin.setup(config).  A supplied Server is running.
CallSetup(c) ==
  /\ pc[c] = "idle"
  /\ \E cfg \in PluginConfig :
       /\ config' = [config EXCEPT ![c] = cfg]
       /\ serverState' = [serverState EXCEPT ![c] =
            IF instanceofServer(cfg) THEN "running" ELSE "none"]
  /\ pc' = [pc EXCEPT ![c] = "server"]
  /\ UNCHANGED <<setup, dbOut, composite, migrateOut, result>>
  /\ UNCHANGED <<databaseState, inited, calls, trace>>
  /\ UNCHANGED <<teardownVars, historyVars>>
  /\ UNCHANGED toolVars

\* #setup, adoption branch: await this.#setupExistingDatabaseServer(server)
SetupExistingDatabaseServer(c) ==
  /\ pc[c] = "server"
  /\ instanceofServer(config[c])
  /\ pc' = [pc EXCEPT ![c] = await("server")]
  /\ Called(c, "ConnectionStrategy")
  /\ Log(c, <<Event("server", "start", "none")>>)
  /\ UNCHANGED <<config, setup, dbOut, composite, migrateOut, result>>
  /\ UNCHANGED <<serverState, databaseState, inited>>
  /\ UNCHANGED <<teardownVars, historyVars>>
  /\ UNCHANGED toolVars

\* The strategy switch of #setupNewDatabaseServer.
IsKnownServerStrategy_Lenient(strategy) == TRUE

IsKnownServerStrategy(strategy) == strategy = "DOCKER"

\* #setup, provisioning branch: await this.#setupNewDatabaseServer(config)
SetupNewDatabaseServer(c) ==
  /\ pc[c] = "server"
  /\ ~instanceofServer(config[c])
  /\ \E d \in Draws(config[c].server.options) :
       /\ random' = [random EXCEPT ![c] = d]
       /\ IF IsKnownServerStrategy(config[c].server.strategy)
          THEN /\ dockerConfig' = [dockerConfig EXCEPT ![c] =
                    Append(@, DockerServerStrategyConfig(
                                config[c].server.options, d))]
               /\ pc' = [pc EXCEPT ![c] = await("server")]
               /\ Called(c, "DockerServerStrategy")
               /\ Log(c, <<Event("server", "start", "none")>>)
               /\ UNCHANGED <<result, teardownVars>>
          ELSE /\ Reject(c, assertNever(UnknownStrategyError))
               /\ Log(c, <<Event("server", "start", "none"),
                           Event("server", "throw", UnknownStrategyError)>>)
               /\ UNCHANGED <<calls, dockerConfig>>
  /\ UNCHANGED <<config, setup, dbOut, composite, migrateOut>>
  /\ UNCHANGED <<serverState, databaseState, inited>>
  /\ UNCHANGED <<handed, returned>>
  /\ UNCHANGED toolVars

\* The server strategy's setup() settles: ConnectionStrategy resolves with
\* the wrapped server; DockerServerStrategy resolves with a started
\* container or throws with nothing started.
ServerSettles(c) ==
  /\ pc[c] = "server.await"
  /\ \/ /\ setup' = [setup EXCEPT ![c] =
               IF instanceofServer(config[c])
               THEN setupExistingDatabaseServer(c)
               ELSE DockerServerStrategySetup(c)]
        /\ serverState' = [serverState EXCEPT ![c] = "running"]
        /\ pc' = [pc EXCEPT ![c] = "init"]
        /\ Log(c, <<Event("server", "end", "none")>>)
        /\ UNCHANGED <<result, teardownVars>>
     \/ /\ ~instanceofServer(config[c])
        /\ \E e \in CollaboratorErrors :
             /\ Reject(c, e)
             /\ Log(c, <<Event("server", "throw", e)>>)
        /\ UNCHANGED <<setup, serverState>>
  /\ UNCHANGED <<config, dbOut, composite, migrateOut>>
  /\ UNCHANGED <<databaseState, inited, calls>>
  /\ UNCHANGED historyVars
  /\ UNCHANGED toolVars

\* const { teardown } = setup; await setup.output.init();
CallInit(c) ==
  /\ pc[c] = "init"
  /\ pc' = [pc EXCEPT ![c] = await("init")]
  /\ Called(c, "init")
  /\ Log(c, <<Event("init", "start", "none")>>)
  /\ UNCHANGED <<config, setup, dbOut, composite, migrateOut, result>>
  /\ UNCHANGED <<serverState, databaseState, inited>>
  /\ UNCHANGED <<teardownVars, historyVars>>
  /\ UNCHANGED toolVars

\* init() settles: the handle is ready, or the handshake failed.
InitSettles(c) ==
  /\ pc[c] = "init.await"
  /\ \/ /\ inited' = [inited EXCEPT ![c] = @ \cup {setup[c].output}]
        /\ pc' = [pc EXCEPT ![c] = "database"]
        /\ Log(c, <<Event("init", "end", "none")>>)
        /\ UNCHANGED <<result, teardownVars>>
     \/ /\ \E e \in CollaboratorErrors :
             /\ Reject(c, e)
             /\ Log(c, <<Event("init", "throw", e)>>)
        /\ UNCHANGED inited
  /\ UNCHANGED <<config, setup, dbOut, composite, migrateOut>>
  /\ UNCHANGED <<serverState, databaseState, calls>>
  /\ UNCHANGED historyVars
  /\ UNCHANGED toolVars

\* #shouldRunDatabaseCreation: without config.database the server handle is
\* passed through with a no-op teardown, else DatabaseStrategy.run() starts.
ShouldRunDatabaseCreation(c) ==
  /\ pc[c] = "database"
  /\ IF ~hasDatabase(config[c])
     THEN /\ dbOut' = [dbOut EXCEPT ![c] =
               [server |-> setup[c].output,
                teardown |-> TeardownAction(c, "database", "none")]]
          /\ pc' = [pc EXCEPT ![c] = "migrate"]
          /\ Log(c, <<Event("database", "skip", "none")>>)
          /\ UNCHANGED calls
     ELSE /\ pc' = [pc EXCEPT ![c] = await("database")]
          /\ Called(c, "DatabaseStrategy")
          /\ Log(c, <<Event("database", "start", "none")>>)
          /\ UNCHANGED dbOut
  /\ UNCHANGED <<config, setup, composite, migrateOut, result>>
  /\ UNCHANGED <<serverState, databaseState, inited>>
  /\ UNCHANGED <<teardownVars, historyVars>>
  /\ UNCHANGED toolVars

\* DatabaseStrategy.run() settles: the database exists, or nothing was made.
DatabaseSettles(c) ==
  /\ pc[c] = "database.await"
  /\ \/ /\ dbOut' = [dbOut EXCEPT ![c] = DatabaseStrategyRun(c)]
        /\ returned' = [returned EXCEPT ![c].database =
             DatabaseStrategyRun(c).server]
        /\ databaseState' = [databaseState EXCEPT ![c] = "created"]
        /\ pc' = [pc EXCEPT ![c] = "migrate"]
        /\ Log(c, <<Event("database", "end", "none")>>)
        /\ UNCHANGED <<result, teardownVars>>
     \/ /\ \E e \in CollaboratorErrors :
             /\ Reject(c, e)
             /\ Log(c, <<Event("database", "throw", e)>>)
        /\ UNCHANGED <<dbOut, databaseState, returned>>
  /\ UNCHANGED <<config, setup, composite, migrateOut>>
  /\ UNCHANGED <<serverState, inited, calls>>
  /\ UNCHANGED <<handed, random, dockerConfig>>
  /\ UNCHANGED toolVars

\* The strategy switch of #shouldRunMigration.
IsKnownMigrationStrategy_Lenient(strategy) == TRUE

IsKnownMigrationStrategy(strategy) == strategy = "SQL"

\* The return expression of #setup up to its first await: #buildTeardown,
\* then #shouldRunMigration.
ShouldRunMigration(c) ==
  /\ pc[c] = "migrate"
  /\ composite' = [composite EXCEPT ![c] =
       buildTeardown(<<dbOut[c].teardown, setup[c].teardown>>)]
  /\ IF ~hasMigrate(config[c])
     THEN /\ migrateOut' = [migrateOut EXCEPT ![c] = Results(<<>>)]
          /\ pc' = [pc EXCEPT ![c] = "seed"]
          /\ Log(c, <<Event("migrate", "skip", "none")>>)
          /\ UNCHANGED <<calls, result, teardownVars, handed>>
     ELSE IF IsKnownMigrationStrategy(config[c].migrate)
     THEN /\ handed' = [handed EXCEPT ![c].migrate =
               newSqlMigrationStrategy(config[c], dbOut[c].server)]
          /\ pc' = [pc EXCEPT ![c] = await("migrate")]
          /\ Called(c, "SqlMigrationStrategy")
          /\ Log(c, <<Event("migrate", "start", "none")>>)
          /\ UNCHANGED <<migrateOut, result, teardownVars>>
     ELSE /\ Reject(c, assertNever(UnknownMigrationStrategyError))
          /\ Log(c, <<Event("migrate", "start", "none"),
                      Event("migrate", "throw",
                            UnknownMigrationStrategyError)>>)
          /\ UNCHANGED <<calls, migrateOut, handed>>
  /\ UNCHANGED <<config, setup, dbOut>>
  /\ UNCHANGED <<serverState, databaseState, inited>>
  /\ UNCHANGED <<returned, random, dockerConfig>>
  /\ UNCHANGED toolVars

\* SqlMigrationStrategy.run() settles with its ordered results or throws.
MigrationSettles(c) ==
  /\ pc[c] = "migrate.await"
  /\ \/ /\ \E r \in MigrationResults :
             /\ returned' = [returned EXCEPT ![c].migrate = Results(r)]
             /\ migrateOut' = [migrateOut EXCEPT ![c] = Results(r)]
        /\ pc' = [pc EXCEPT ![c] = "seed"]
        /\ Log(c, <<Event("migrate", "end", "none")>>)
        /\ UNCHANGED <<result, teardownVars>>
     \/ /\ \E e \in CollaboratorErrors :
             /\ Reject(c, e)
             /\ Log(c, <<Event("migrate", "throw", e)>>)
        /\ UNCHANGED <<migrateOut, returned>>
  /\ UNCHANGED <<config, setup, dbOut, composite>>
  /\ UNCHANGED <<serverState, databaseState, inited, calls>>
  /\ UNCHANGED <<handed, random, dockerConfig>>
  /\ UNCHANGED toolVars

\* #shouldRunSeed: without config.seed the empty results are returned and
\* #setup returns, else SeedStrategy.run() starts.
ShouldRunSeed(c) ==
  /\ pc[c] = "seed"
  /\ IF ~hasSeed(config[c])
     THEN /\ Resolve(c, Results(<<>>))
          /\ Log(c, <<Event("seed", "skip", "none")>>)
          /\ UNCHANGED <<calls, handed>>
     ELSE /\ handed' = [handed EXCEPT ![c].seed =
               newSeedStrategy(config[c], dbOut[c].server)]
          /\ pc' = [pc EXCEPT ![c] = await("seed")]
          /\ Called(c, "SeedStrategy")
          /\ Log(c, <<Event("seed", "start", "none")>>)
          /\ UNCHANGED <<result, teardownVars>>
  /\ UNCHANGED <<config, setup, dbOut, composite, migrateOut>>
  /\ UNCHANGED <<serverState, databaseState, inited>>
  /\ UNCHANGED <<returned, random, dockerConfig>>
  /\ UNCHANGED toolVars

\* SeedStrategy.run() settles with its per-table results or throws.
SeedSettles(c) ==
  /\ pc[c] = "seed.await"
  /\ \/ /\ \E r \in SeedResults :
             /\ returned' = [returned EXCEPT ![c].seed = Results(r)]
             /\ Resolve(c, Results(r))
        /\ Log(c, <<Event("seed", "end", "none")>>)
     \/ /\ \E e \in CollaboratorErrors :
             /\ Reject(c, e)
             /\ Log(c, <<Event("seed", "throw", e)>>)
        /\ UNCHANGED returned
  /\ UNCHANGED <<config, setup, dbOut, composite, migrateOut>>
  /\ UNCHANGED <<serverState, databaseState, inited, calls>>
  /\ UNCHANGED <<handed, random, dockerConfig>>
  /\ UNCHANGED toolVars

\* ------------------------------------------------------------------------
\* The composite teardown
\* ------------------------------------------------------------------------

\* The teardown the caller holds: the one of a resolved setup promise.
CallerTeardown(c) ==
  IF result[c].status = "resolved" THEN result[c].teardown ELSE <<>>

\* The caller invokes the composite teardown it was given and awaits it.
InvokeTeardown(c) ==
  /\ CallerTeardown(c) # <<>>
  /\ tdStatus[c] # "running"
  /\ tdCalls[c] < MaxTeardownCalls
  /\ tdCalls' = [tdCalls EXCEPT ![c] = @ + 1]
  /\ tdIndex' = [tdIndex EXCEPT ![c] = 1]
  /\ tdAttempted' = [tdAttempted EXCEPT ![c] = {}]
  /\ tdStatus' = [tdStatus EXCEPT ![c] = "running"]
  /\ UNCHANGED <<frameVars, worldVars, runs, tdLog, historyVars>>
  /\ UNCHANGED toolVars

\* What running a release action does to the resource it releases.
Release(a) ==
  /\ serverState' =
       IF a.effect = "stopServer"
       THEN [serverState EXCEPT ![a.call] = "stopped"]
       ELSE serverState
  /\ databaseState' =
       IF a.effect = "dropDatabase"
       THEN [databaseState EXCEPT ![a.call] = "dropped"]
       ELSE databaseState

\* The record of one run of release action a by the composite of call c:
\* the invocation it belongs to, whether it resolved, how often a has been
\* run with this run, and the state of its resources when it started.
TeardownRun(c, a, ok) ==
  [inv |-> tdCalls[c], action |-> a, ok |-> ok,
   run |-> runs[a.call][a.phase] + 1,
   serverBefore |-> serverState[a.call],
   databaseBefore |-> databaseState[a.call]]

\* One iteration of `for (const teardown of teardowns) await teardown()`:
\* the action resolves and the loop goes on, or it throws and the loop and
\* the invocation end with that error.
TeardownStep(c) ==
  /\ tdStatus[c] = "running"
  /\ LET a == CallerTeardown(c)[tdIndex[c]]
         last == tdIndex[c] = Len(CallerTeardown(c))
     IN /\ runs' = [runs EXCEPT ![a.call][a.phase] = @ + 1]
        /\ tdAttempted' = [tdAttempted EXCEPT ![c] = @ \cup {a.phase}]
        /\ \E ok \in TeardownOutcomes(a) :
             /\ tdLog' = [tdLog EXCEPT ![c] = Append(@, TeardownRun(c, a, ok))]
             /\ IF ok
                THEN /\ Release(a)
                     /\ tdIndex' = [tdIndex EXCEPT ![c] =
                          IF last THEN 0 ELSE @ + 1]
                     /\ tdStatus' = [tdStatus EXCEPT ![c] =
                          IF last THEN "resolved" ELSE "running"]
                ELSE /\ tdIndex' = [tdIndex EXCEPT ![c] = 0]
                     /\ tdStatus' = [tdStatus EXCEPT ![c] = "rejected"]
                     /\ UNCHANGED <<serverState, databaseState>>
  /\ UNCHANGED <<frameVars, inited, calls, trace, tdCalls, historyVars>>
  /\ UNCHANGED toolVars

\* ------------------------------------------------------------------------
\* Specification: one setup call and its teardown
\* ------------------------------------------------------------------------

Step(c) ==
  \/ CallSetup(c)
  \/ SetupExistingDatabaseServer(c)
  \/ SetupNewDatabaseServer(c)
  \/ ServerSettles(c)
  \/ CallInit(c)
  \/ InitSettles(c)
  \/ ShouldRunDatabaseCreation(c)
  \/ DatabaseSettles(c)
  \/ ShouldRunMigration(c)
  \/ MigrationSettles(c)
  \/ ShouldRunSeed(c)
  \/ SeedSettles(c)
  \/ InvokeTeardown(c)
  \/ TeardownStep(c)

Next == \E c \in SingleCall : Step(c)

Spec == Init /\ [][Next]_vars

\* ------------------------------------------------------------------------
\* Specification: one setup call whose steps are eventually taken
\* ------------------------------------------------------------------------

\* The steps of #setup between the call and the settling of its promise:
\* the synchronous stretches of the async function and the settling of the
\* collaborator promise it awaits.
Pipeline(c) ==
  \/ SetupExistingDatabaseServer(c)
  \/ SetupNewDatabaseServer(c)
  \/ ServerSettles(c)
  \/ CallInit(c)
  \/ InitSettles(c)
  \/ ShouldRunDatabaseCreation(c)
  \/ DatabaseSettles(c)
  \/ ShouldRunMigration(c)
  \/ MigrationSettles(c)
  \/ ShouldRunSeed(c)
  \/ SeedSettles(c)

\* The event loop runs every continuation that is ready, and every
\* collaborator call eventually returns or throws.
Fairness == \A c \in SingleCall : WF_vars(Pipeline(c))

SpecLive == Init /\ [][Next]_vars /\ Fairness

\* ------------------------------------------------------------------------
\* Specification: two setup calls in flight on the one plugin instance
\* ------------------------------------------------------------------------

\* The configurations of the concurrent calls: a provisioned container with
\* a database and default identifiers, or an adopted server (each call its
\* own) with SQL migrations and a seed.
ConcurrentConfigs ==
  { [ server |-> [isServer |-> FALSE, strategy |-> "DOCKER",
                  options |-> NoOptions],
      database |-> TRUE, migrate |-> "undefined", seed |-> FALSE,
      seedData |-> <<>> ],
    [ server |-> [isServer |-> TRUE, strategy |-> "undefined",
                  options |-> NoOptions],
      database |-> FALSE, migrate |-> "SQL", seed |-> TRUE,
      seedData |-> <<>> ] }

\* A caller calls plugin.setup(config) while another call may be in flight.
CallSetupConcurrently(c) ==
  /\ pc[c] = "idle"
  /\ \E cfg \in ConcurrentConfigs :
       /\ config' = [config EXCEPT ![c] = cfg]
       /\ serverState' = [serverState EXCEPT ![c] =
            IF instanceofServer(cfg) THEN "running" ELSE "none"]
  /\ pc' = [pc EXCEPT ![c] = "server"]
  /\ UNCHANGED <<setup, dbOut, composite, migrateOut, result>>
  /\ UNCHANGED <<databaseState, inited, calls, trace>>
  /\ UNCHANGED <<teardownVars, historyVars>>
  /\ UNCHANGED toolVars

\* The event loop runs one step of either call.
ConcurrentStep(c) ==
  \/ CallSetupConcurrently(c)
  \/ SetupExistingDatabaseServer(c)
  \/ SetupNewDatabaseServer(c)
  \/ ServerSettles(c)
  \/ CallInit(c)
  \/ InitSettles(c)
  \/ ShouldRunDatabaseCreation(c)
  \/ DatabaseSettles(c)
  \/ ShouldRunMigration(c)
  \/ MigrationSettles(c)
  \/ ShouldRunSeed(c)
  \/ SeedSettles(c)
  \/ InvokeTeardown(c)
  \/ TeardownStep(c)

NextConcurrent == \E c \in Calls : ConcurrentStep(c)

SpecConcurrent == Init /\ [][NextConcurrent]_vars

\* ------------------------------------------------------------------------
\* The npm build script
\* ------------------------------------------------------------------------

\* const packages: name, and whether pkg.test !== false.
packages ==
  << [name |-> "@nifty-lil-tricks/testing", test |-> TRUE],
     [name |-> "@nifty-lil-tricks/testing-plugin-postgresql",
      test |-> FALSE] >>

\* parse(Deno.args)._[0]: absent, empty, the name of a package or another
\* name.
PackageArguments ==
  {<<>>, <<"">>, <<"@nifty-lil-tricks/unknown">>}
    \cup {<<packages[i].name>> : i \in 1..Len(packages)}

\* npm/<package name>: missing, or a directory with or without a
\* node_modules directory in it.
OutDirStates == {"absent", "withModules", "withoutModules"}

\* if (pkgToBuild)
IsTruthy(arg) == arg # <<>> /\ arg # <<"">>

\* packages.filter((pkg) => pkg.name === pkgToBuild), as indices.
filter(arg) ==
  SelectSeq([i \in 1..Len(packages) |-> i],
            LAMBDA i : packages[i].name = arg[1])

\* The script is started: its argument, its working directory and what an
\* earlier run left under npm/ are given.
InitBuild ==
  /\ InitPlugin
  /\ CheckNotRun
  /\ buildPc = "emptyDir"
  /\ pkgToBuild \in PackageArguments
  /\ cwdIsRoot \in BOOLEAN
  /\ outDirs \in [1..Len(packages) -> OutDirStates]
  /\ filteredPackages = [i \in 1..Len(packages) |-> i]
  /\ buildIndex = 0
  /\ cleanupIndex = 0
  /\ built = <<>>
  /\ cleaned = <<>>
  /\ buildError = "none"

\* await emptyDir("./npm"): empties npm/ of the working directory, which is
\* the npm/ the output directories are in when the script was started in
\* the repository root.
EmptyDir ==
  /\ buildPc = "emptyDir"
  /\ outDirs' = IF cwdIsRoot
                THEN [i \in 1..Len(packages) |-> "absent"]
                ELSE outDirs
  /\ buildPc' = "filter"
  /\ UNCHANGED <<pkgToBuild, cwdIsRoot, filteredPackages, buildIndex,
                 cleanupIndex, built, cleaned, buildError>>
  /\ UNCHANGED <<pluginVars, checkVars>>

\* let filteredPackages = packages; if (pkgToBuild) { ... }
FilterPackages ==
  /\ buildPc = "filter"
  /\ IF IsTruthy(pkgToBuild) /\ filter(pkgToBuild) = <<>>
     THEN /\ buildPc' = "failed"
          /\ buildError' = "Could not find package"
          /\ UNCHANGED <<filteredPackages, buildIndex>>
     ELSE /\ filteredPackages' =
               IF IsTruthy(pkgToBuild)
               THEN filter(pkgToBuild) ELSE filteredPackages
          /\ buildPc' = "build"
          /\ buildIndex' = 1
          /\ UNCHANGED buildError
  /\ UNCHANGED <<pkgToBuild, cwdIsRoot, outDirs, cleanupIndex, built,
                 cleaned>>
  /\ UNCHANGED <<pluginVars, checkVars>>

\* One iteration of `for (const pkg of filteredPackages)`: the output
\* directory is removed, built with tests and removed again unless
\* pkg.test is false, then built for publish, which leaves node_modules in
\* it, and its package.json is adjusted.  A step of it may throw, with the
\* output directory in any state.
BuildPackage ==
  /\ buildPc = "build"
  /\ buildIndex <= Len(filteredPackages)
  /\ LET pkg == filteredPackages[buildIndex]
     IN \/ /\ outDirs' = [outDirs EXCEPT ![pkg] = "withModules"]
           /\ built' = Append(built, pkg)
           /\ buildIndex' = buildIndex + 1
           /\ UNCHANGED <<buildPc, buildError>>
        \/ /\ \E left \in OutDirStates :
                outDirs' = [outDirs EXCEPT ![pkg] = left]
           /\ buildPc' = "failed"
           /\ buildError' = "build failed"
           /\ UNCHANGED <<built, buildIndex>>
  /\ UNCHANGED <<pkgToBuild, cwdIsRoot, filteredPackages, cleanupIndex,
                 cleaned>>
  /\ UNCHANGED <<pluginVars, checkVars>>

\* The build loop is over; the cleanup loop starts.
StartCleanup ==
  /\ buildPc = "build"
  /\ buildIndex > Len(filteredPackages)
  /\ buildPc' = "cleanup"
  /\ cleanupIndex' = 1
  /\ UNCHANGED <<pkgToBuild, cwdIsRoot, outDirs, filteredPackages,
                 buildIndex, built, cleaned, buildError>>
  /\ UNCHANGED <<pluginVars, checkVars>>

\* One iteration of `for (const pkg of packages)`:
\* await Deno.remove(join(outDir, "node_modules"), { recursive: true }),
\* which throws NotFound when the path does not exist.
Cleanup ==
  /\ buildPc = "cleanup"
  /\ cleanupIndex <= Len(packages)
  /\ cleaned' = Append(cleaned, cleanupIndex)
  /\ IF outDirs[cleanupIndex] = "withModules"
     THEN /\ outDirs' = [outDirs EXCEPT ![cleanupIndex] = "withoutModules"]
          /\ cleanupIndex' = cleanupIndex + 1
          /\ UNCHANGED <<buildPc, buildError>>
     ELSE /\ buildPc' = "failed"
          /\ buildError' = "NotFound"
          /\ UNCHANGED <<outDirs, cleanupIndex>>
  /\ UNCHANGED <<pkgToBuild, cwdIsRoot, filteredPackages, buildIndex,
                 built>>
  /\ UNCHANGED <<pluginVars, checkVars>>

\* The cleanup loop is over and the script ends.
BuildDone ==
  /\ buildPc = "cleanup"
  /\ cleanupIndex > Len(packages)
  /\ buildPc' = "done"
  /\ UNCHANGED <<pkgToBuild, cwdIsRoot, outDirs, filteredPackages,
                 buildIndex, cleanupIndex, built, cleaned, buildError>>
  /\ UNCHANGED <<pluginVars, checkVars>>

NextBuild ==
  \/ EmptyDir
  \/ FilterPackages
  \/ BuildPackage
  \/ StartCleanup
  \/ Cleanup
  \/ BuildDone

SpecBuild == InitBuild /\ [][NextBuild]_vars

\* ------------------------------------------------------------------------
\* The deprecation check
\* ------------------------------------------------------------------------

\* Versions X.Y.Z as <<X, Y, Z>>.
Versions == {<<1, 1, 9>>, <<1, 2, 0>>, <<2, 0, 0>>}

\* Values of VERSION (version.ts): below, at and above the version the
\* tags name.
CurrentVersions == Versions

\* The version named in the tags.
TagVersions == {<<1, 2, 0>>}

\* A message is a sequence of parts: the text "(will be removed in X.Y.Z)",
\* the text "(will be removed after X.Y.Z)", or any other text.
InPart(v) == [format |-> "in", version |-> v]
AfterPart(v) == [format |-> "after", version |-> v]
OtherText == [format |-> "text", version |-> <<0, 0, 0>>]

\* tag.doc: <<>> is an absent or empty message.
Messages ==
  {<<>>, <<OtherText>>}
    \cup {<<InPart(v)>> : v \in TagVersions}
    \cup {<<AfterPart(v)>> : v \in TagVersions}
    \cup {<<OtherText, InPart(v)>> : v \in TagVersions}

\* The JSDoc tags of the documented nodes of a file.
Tags ==
  {[kind |-> "deprecated", doc |-> m] : m \in Messages}
    \cup {[kind |-> "example", doc |-> <<>>]}

SeqsUpTo(S, n) == UNION {[1..k -> S] : k \in 0..n}

\* What walk() and doc() yield: per file, its tags in order.
Files == SeqsUpTo(SeqsUpTo(Tags, MaxTagsPerFile), MaxFiles)

\* semver.compare on parsed versions.
compare(a, b) ==
  IF a[1] # b[1] THEN (IF a[1] < b[1] THEN -1 ELSE 1)
  ELSE IF a[2] # b[2] THEN (IF a[2] < b[2] THEN -1 ELSE 1)
  ELSE IF a[3] # b[3] THEN (IF a[3] < b[3] THEN -1 ELSE 1)
  ELSE 0

\* semver.lt, semver.gt
lt(a, b) == compare(a, b) < 0

gt_OrEqual(a, b) == compare(a, b) >= 0

gt(a, b) == compare(a, b) > 0

\* DEPRECATION_AFTER_FORMAT_REGEX.exec(message)?.groups.version: the regex
\* is anchored at the start of the message only; <<>> is no match.
DEPRECATION_AFTER_FORMAT_REGEX(message) ==
  IF Len(message) > 0 /\ message[1].format = "after"
  THEN <<message[1].version>> ELSE <<>>

\* DEPRECATION_IN_FORMAT_REGEX.exec(message)?.groups.version
DEPRECATION_IN_FORMAT_REGEX(message) ==
  IF Len(message) > 0 /\ message[1].format = "in"
  THEN <<message[1].version>> ELSE <<>>

\* The body of `for (const tag of tags)`: what the script does for one tag,
\* "error" (console.error, shouldFail), "warn" (console.warn) or "pass".
checkTag(tag, version) ==
  IF tag.kind # "deprecated" THEN "pass"
  ELSE IF tag.doc = <<>> THEN "error"
  ELSE IF DEPRECATION_AFTER_FORMAT_REGEX(tag.doc) # <<>>
  THEN (IF lt(DEPRECATION_AFTER_FORMAT_REGEX(tag.doc)[1], version)
        THEN "warn" ELSE "pass")
  ELSE IF DEPRECATION_IN_FORMAT_REGEX(tag.doc) = <<>> THEN "error"
  ELSE IF ~gt(DEPRECATION_IN_FORMAT_REGEX(tag.doc)[1], version) THEN "error"
  ELSE "pass"

\* The script is started on a source tree, with or without --fail-fast.
InitCheck ==
  /\ InitPlugin
  /\ BuildNotRun
  /\ checkPc = "walk"
  /\ files \in Files
  /\ VERSION \in CurrentVersions
  /\ FAIL_FAST \in BOOLEAN
  /\ shouldFail = FALSE
  /\ fileIndex = 0
  /\ tagIndex = 0
  /\ examined = <<>>
  /\ warned = <<>>
  /\ exitCode = -1

\* for await (const { path } of walk(...)): the next file and its docs.
NextFile ==
  /\ checkPc = "walk"
  /\ fileIndex < Len(files)
  /\ fileIndex' = fileIndex + 1
  /\ tagIndex' = 1
  /\ checkPc' = "tags"
  /\ UNCHANGED <<files, VERSION, FAIL_FAST, shouldFail, examined, warned,
                 exitCode>>
  /\ UNCHANGED <<pluginVars, buildVars>>

\* One iteration of `for (const tag of tags)`.
ExamineTag ==
  /\ checkPc = "tags"
  /\ tagIndex <= Len(files[fileIndex])
  /\ LET verdict == checkTag(files[fileIndex][tagIndex], VERSION)
     IN /\ examined' = Append(examined, <<fileIndex, tagIndex>>)
        /\ warned' = IF verdict = "warn"
                     THEN Append(warned, <<fileIndex, tagIndex>>)
                     ELSE warned
        /\ IF verdict = "error" /\ FAIL_FAST
           THEN /\ exitCode' = 1
                /\ checkPc' = "exited"
                /\ UNCHANGED <<shouldFail, tagIndex>>
           ELSE /\ shouldFail' = (shouldFail \/ verdict = "error")
                /\ tagIndex' = tagIndex + 1
                /\ UNCHANGED <<exitCode, checkPc>>
  /\ UNCHANGED <<files, VERSION, FAIL_FAST, fileIndex>>
  /\ UNCHANGED <<pluginVars, buildVars>>

\* The tags of the file are exhausted.
FileDone ==
  /\ checkPc = "tags"
  /\ tagIndex > Len(files[fileIndex])
  /\ checkPc' = "walk"
  /\ UNCHANGED <<files, VERSION, FAIL_FAST, shouldFail, fileIndex, tagIndex,
                 examined, warned, exitCode>>
  /\ UNCHANGED <<pluginVars, buildVars>>

\* The walk is over: if (shouldFail) Deno.exit(1); else the script ends
\* with status 0.
Exit ==
  /\ checkPc = "walk"
  /\ fileIndex = Len(files)
  /\ exitCode' = IF shouldFail THEN 1 ELSE 0
  /\ checkPc' = "exited"
  /\ UNCHANGED <<files, VERSION, FAIL_FAST, shouldFail, fileIndex, tagIndex,
                 examined, warned>>
  /\ UNCHANGED <<pluginVars, buildVars>>

NextCheck ==
  \/ NextFile
  \/ ExamineTag
  \/ FileDone
  \/ Exit

SpecCheck == InitCheck /\ [][NextCheck]_vars

\* ------------------------------------------------------------------------
\* Vocabulary of the properties
\* ------------------------------------------------------------------------

PhaseIndex(p) == CHOOSE k \in 1..Len(Phases) : Phases[k] = p

\* Phase p was entered with a call to its collaborator or dispatch.
Started(c, p) ==
  \E i \in 1..Len(trace[c]) :
    trace[c][i].phase = p /\ trace[c][i].ev = "start"

\* Phase p is over without an error: its collaborator resolved, or it was
\* skipped because the configuration omits it.
Completed(c, p) ==
  \E i \in 1..Len(trace[c]) :
    trace[c][i].phase = p /\ trace[c][i].ev \in {"end", "skip"}

Threw(c, p) ==
  \E i \in 1..Len(trace[c]) :
    trace[c][i].phase = p /\ trace[c][i].ev = "throw"

LastEvent(c) == trace[c][Len(trace[c])]

\* The last invocation of the composite teardown of call c has returned.
TeardownReturned(c) == tdStatus[c] \in {"resolved", "rejected"}

\* ------------------------------------------------------------------------
\* Properties
\* ------------------------------------------------------------------------

\* C1: whenever an invocation of the composite teardown has returned, every
\* action composed into it was attempted, also when an earlier action (the
\* database teardown) threw.
C1_EveryTeardownAttempted ==
  \A c \in Calls :
    TeardownReturned(c) =>
      \A i \in 1..Len(CallerTeardown(c)) :
        CallerTeardown(c)[i].phase \in tdAttempted[c]

\* C2: when the server phase completed and the database, migration or seed
\* phase threw, the teardown action of every phase that completed before
\* the failure is among the actions the caller can invoke after setup has
\* rejected.
C2_TeardownsReachableAfterFailure ==
  \A c \in Calls :
    ( /\ pc[c] = "Failed"
      /\ Completed(c, "server")
      /\ \E p \in {"database", "migrate", "seed"} : Threw(c, p) )
    => /\ setup[c].teardown \in Range(CallerTeardown(c))
       /\ Completed(c, "database") =>
            dbOut[c].teardown \in Range(CallerTeardown(c))

\* C3: the phases of a setup call run in the order server, init, database,
\* migrate, seed without overlap: a started phase is settled before
\* anything else happens, a phase begins only after the one before it has
\* completed, no phase is entered twice, and init() was called exactly once
\* and has completed on the acquired handle before a downstream phase
\* begins.
C3_PhasesStrictlySequential ==
  \A c \in Calls :
    LET t == trace[c] IN
    /\ \A i \in 1..Len(t) : \A j \in i..Len(t) :
         PhaseIndex(t[i].phase) <= PhaseIndex(t[j].phase)
    /\ \A i \in 1..Len(t) :
         (t[i].ev = "start" /\ i < Len(t)) =>
           /\ t[i + 1].phase = t[i].phase
           /\ t[i + 1].ev \in {"end", "throw"}
    /\ \A i \in 1..Len(t) :
         (t[i].ev \in {"start", "skip"} /\ PhaseIndex(t[i].phase) > 1) =>
           \E j \in 1..(i - 1) :
             /\ PhaseIndex(t[j].phase) = PhaseIndex(t[i].phase) - 1
             /\ t[j].ev \in {"end", "skip"}
    /\ \A i \in 1..Len(t) : \A j \in 1..Len(t) :
         (t[i].phase = t[j].phase /\ t[i].ev \in {"start", "skip"}
            /\ t[j].ev \in {"start", "skip"}) => i = j
    /\ calls[c]["init"] <= 1
    /\ \A i \in 1..Len(t) :
         PhaseIndex(t[i].phase) > 2 =>
           /\ calls[c]["init"] = 1
           /\ setup[c].output # NoHandle
           /\ inited[c] = {setup[c].output}

\* C3 witness: a call on the provisioning path ran all five phases.
C3_Witness ==
  /\ pc[1] = "Ready"
  /\ ~config[1].server.isServer
  /\ \A k \in 1..Len(Phases) :
       \E i \in 1..Len(trace[1]) :
         trace[1][i].phase = Phases[k] /\ trace[1][i].ev = "end"

\* C4: a setup call is Failed exactly when a phase threw; the throw is the
\* last thing that happened in the call, the promise is rejected with the
\* very error thrown, and after a migration failure the seed collaborator
\* was never called.
C4_FailureRejectsWithThrownError ==
  \A c \in Calls :
    LET t == trace[c] IN
    /\ \A i \in 1..Len(t) : t[i].ev = "throw" => i = Len(t)
    /\ (pc[c] = "Failed") <=> (Len(t) > 0 /\ LastEvent(c).ev = "throw")
    /\ pc[c] = "Failed" =>
         /\ result[c].status = "rejected"
         /\ result[c].error = LastEvent(c).err
         /\ result[c].teardown = <<>>
    /\ result[c].status = "rejected" => pc[c] = "Failed"
    /\ Threw(c, "migrate") =>
         /\ calls[c]["SeedStrategy"] = 0
         /\ ~Started(c, "seed")

\* C4 witness: the migration collaborator threw in a call that configures
\* a seed.
C4_Witness ==
  /\ pc[1] = "Failed"
  /\ config[1].seed
  /\ LastEvent(1) = Event("migrate", "throw", "E2")

\* C5: a configuration that omits database, migrate or seed never calls
\* the corresponding collaborator, and a resolved setup carries the empty
\* results record (present, with no results) for an omitted migrate or
\* seed.
C5_OmittedPhaseCallsNothing ==
  \A c \in Calls :
    /\ ~config[c].database =>
         calls[c]["DatabaseStrategy"] = 0 /\ databaseState[c] = "none"
    /\ config[c].migrate = "undefined" =>
         calls[c]["SqlMigrationStrategy"] = 0
    /\ ~config[c].seed => calls[c]["SeedStrategy"] = 0
    /\ result[c].status = "resolved" =>
         /\ config[c].migrate = "undefined" =>
              result[c].output.migrate = Results(<<>>)
         /\ ~config[c].seed => result[c].output.seed = Results(<<>>)

\* C5 witness: setup resolved for a configuration with only `server`.
C5_Witness ==
  /\ pc[1] = "Ready"
  /\ ~config[1].database
  /\ config[1].migrate = "undefined"
  /\ ~config[1].seed
  /\ result[1].output.migrate = Results(<<>>)
  /\ result[1].output.seed = Results(<<>>)

\* C6: on the adoption path the supplied server is never stopped, whatever
\* phases are configured and however often the composite teardown runs.
C6_AdoptedServerNeverStopped ==
  \A c \in Calls :
    config[c].server.isServer => serverState[c] = "running"

\* C6 witness: the composite teardown of an adoption call that also created
\* a database has run to its end.
C6_Witness ==
  /\ config[1].server.isServer
  /\ config[1].database
  /\ tdStatus[1] = "resolved"
  /\ runs[1]["server"] >= 1
  /\ databaseState[1] = "dropped"

\* C7: when setup rejects because server acquisition or init() threw, no
\* started server is left that the caller has no teardown action for.
C7_NoObligationAfterAcquisitionFailure ==
  \A c \in Calls :
    ( /\ pc[c] = "Failed"
      /\ Threw(c, "server") \/ Threw(c, "init")
      /\ ~config[c].server.isServer )
    => \/ serverState[c] # "running"
       \/ \E i \in 1..Len(CallerTeardown(c)) :
            CallerTeardown(c)[i].effect = "stopServer"

\* C8 as claimed: when setup has failed for an unrecognized migrate.strategy
\* no server was provisioned or adopted and no database was created, since
\* the error is raised before any resource is acquired.
C8_RaisedBeforeAnyResource ==
  \A c \in Calls :
    ( /\ config[c].migrate = "OTHER"
      /\ pc[c] = "Failed"
      /\ result[c].error = UnknownMigrationStrategyError )
    =>
      /\ calls[c]["DockerServerStrategy"] = 0
      /\ calls[c]["ConnectionStrategy"] = 0
      /\ calls[c]["DatabaseStrategy"] = 0
      /\ databaseState[c] = "none"

\* C8 as amended: with an unrecognized migrate.strategy setup never
\* resolves and neither the migration nor the seed collaborator is called;
\* the 'Unknown migration strategy' error is raised by the dispatch of the
\* migration phase, after the server was acquired and initialized and the
\* database phase (when configured) created its database; a call that
\* gets past the database phase ends with that error and no other.
C8_RaisedOnMigrationDispatch ==
  \A c \in Calls :
    config[c].migrate = "OTHER" =>
      /\ result[c].status # "resolved"
      /\ pc[c] # "Ready"
      /\ calls[c]["SqlMigrationStrategy"] = 0
      /\ calls[c]["SeedStrategy"] = 0
      /\ result[c].error = UnknownMigrationStrategyError =>
           /\ Completed(c, "server")
           /\ Completed(c, "init")
           /\ Completed(c, "database")
           /\ serverState[c] = "running"
           /\ config[c].database => databaseState[c] = "created"
      /\ (pc[c] = "Failed" /\ Completed(c, "database")) =>
           result[c].error = UnknownMigrationStrategyError

\* C8 witness: the dispatch error was raised with a container running and
\* a database created.
C8_Witness ==
  /\ config[1].migrate = "OTHER"
  /\ pc[1] = "Failed"
  /\ result[1].error = UnknownMigrationStrategyError
  /\ ~config[1].server.isServer
  /\ serverState[1] = "running"
  /\ databaseState[1] = "created"

\* C9: a provisioning configuration with an unrecognized server.strategy
\* rejects at once with the 'Unknown strategy' error: no collaborator is
\* ever called, no server is started, no phase after the dispatch is
\* entered and the call never resolves.
C9_UnknownServerStrategyRejects ==
  \A c \in Calls :
    ( /\ pc[c] # "idle"
      /\ ~config[c].server.isServer
      /\ config[c].server.strategy # "DOCKER" )
    => /\ pc[c] \in {"server", "Failed"}
       /\ pc[c] = "Failed" =>
            /\ result[c].status = "rejected"
            /\ result[c].error = UnknownStrategyError
       /\ result[c].status # "resolved"
       /\ \A k \in Collaborators : calls[c][k] = 0
       /\ serverState[c] = "none"
       /\ databaseState[c] = "none"
       /\ \A p \in {"init", "database", "migrate", "seed"} :
            ~Started(c, p) /\ ~Completed(c, p)

\* C9 witness: such a call has rejected.
C9_Witness ==
  /\ ~config[1].server.isServer
  /\ config[1].server.strategy = "OTHER"
  /\ pc[1] = "Failed"
  /\ result[1].error = UnknownStrategyError

\* C10: a setup call that ended in Failed has run no teardown action.
C10_FailedSetupRunsNoTeardown ==
  \A c \in Calls :
    pc[c] = "Failed" =>
      /\ runs[c]["server"] = 0
      /\ runs[c]["database"] = 0
      /\ tdCalls[c] = 0

\* C10 witness: the seed phase threw after a container was started and a
\* database was created.
C10_Witness ==
  /\ pc[1] = "Failed"
  /\ Threw(1, "seed")
  /\ serverState[1] = "running"
  /\ databaseState[1] = "created"
  /\ setup[1].teardown.effect = "stopServer"
  /\ dbOut[1].teardown.effect = "dropDatabase"

\* C11: on the provisioning path neither teardown action has been run
\* before the caller invokes the composite teardown, and one invocation
\* in which no action throws has run the database teardown exactly once
\* and the server teardown exactly once: the container was stopped by
\* exactly one run.
C11_OneInvocationRunsEachOnce ==
  \A c \in Calls :
    (result[c].status = "resolved" /\ ~config[c].server.isServer) =>
      /\ tdCalls[c] = 0 =>
           /\ runs[c]["server"] = 0
           /\ runs[c]["database"] = 0
           /\ tdLog[c] = <<>>
           /\ serverState[c] = "running"
      /\ (tdCalls[c] = 1 /\ tdStatus[c] = "resolved") =>
           /\ runs[c]["server"] = 1
           /\ runs[c]["database"] = 1
           /\ serverState[c] = "stopped"
           /\ Cardinality({i \in 1..Len(tdLog[c]) :
                 tdLog[c][i].action.effect = "stopServer"}) = 1
           /\ Cardinality({i \in 1..Len(tdLog[c]) :
                 tdLog[c][i].action.phase = "database"}) = 1

\* C11 witness: one invocation has stopped the container and dropped the
\* created database.
C11_Witness ==
  /\ ~config[1].server.isServer
  /\ config[1].database
  /\ tdCalls[1] = 1
  /\ tdStatus[1] = "resolved"
  /\ serverState[1] = "stopped"
  /\ databaseState[1] = "dropped"

\* C12: the composite teardown is the database-phase action followed by
\* the server-phase action; the server action is only ever run right
\* after the database action of the same invocation has resolved, and a
\* created database is dropped while its server is still running.
C12_DatabaseTeardownBeforeServer ==
  \A c \in Calls :
    LET l == tdLog[c] IN
    /\ result[c].status = "resolved" =>
         result[c].teardown = <<dbOut[c].teardown, setup[c].teardown>>
    /\ \A i \in 1..Len(l) :
         l[i].action.phase = "server" =>
           /\ i > 1
           /\ l[i - 1].action.phase = "database"
           /\ l[i - 1].inv = l[i].inv
           /\ l[i - 1].ok
    /\ \A i \in 1..Len(l) :
         (l[i].action.effect = "dropDatabase" /\ l[i].ok
            /\ l[i].databaseBefore = "created") =>
           l[i].serverBefore = "running"
    /\ (tdStatus[c] = "running" /\ tdIndex[c] = 1) =>
         (l = <<>> \/ l[Len(l)].inv < tdCalls[c])
    /\ serverState[c] = "stopped" => databaseState[c] # "created"

\* C12 witness: an invocation dropped the database of a running container
\* and then stopped the container.
C12_Witness ==
  /\ Len(tdLog[1]) = 2
  /\ tdLog[1][1].action.effect = "dropDatabase"
  /\ tdLog[1][1].ok
  /\ tdLog[1][1].serverBefore = "running"
  /\ tdLog[1][2].action.effect = "stopServer"
  /\ tdLog[1][2].ok
  /\ tdLog[1][2].databaseBefore = "dropped"

\* C13: when no release action threw on a repeated run (a run of it after
\* its first), a second invocation of the composite teardown that has
\* returned did not throw, and what the first invocation left stopped or
\* dropped is still stopped or dropped.
C13_SecondInvocationDoesNotThrow ==
  \A c \in Calls :
    LET l == tdLog[c] IN
    ( /\ tdCalls[c] = 2
      /\ TeardownReturned(c)
      /\ \A i \in 1..Len(l) : l[i].run >= 2 => l[i].ok )
    => /\ tdStatus[c] = "resolved"
       /\ \A i \in 1..Len(l) :
            l[i].inv = 2 =>
              /\ l[i].serverBefore = "stopped" => serverState[c] = "stopped"
              /\ l[i].databaseBefore = "dropped" =>
                   databaseState[c] = "dropped"

\* C16: no phase is ever retried: each collaborator is called at most once
\* per setup call, one server strategy at most, each phase is entered at
\* most once, and a throw of a phase is the last event of the call, which
\* is then Failed for good.
C16_NoPhaseRetried ==
  \A c \in Calls :
    /\ \A k \in Collaborators : calls[c][k] <= 1
    /\ calls[c]["ConnectionStrategy"] + calls[c]["DockerServerStrategy"] <= 1
    /\ \A i, j \in 1..Len(trace[c]) :
         ( /\ trace[c][i].ev = "start"
           /\ trace[c][j].ev = "start"
           /\ trace[c][i].phase = trace[c][j].phase ) => i = j
    /\ \A i \in 1..Len(trace[c]) :
         trace[c][i].ev = "throw" =>
           /\ i = Len(trace[c])
           /\ pc[c] = "Failed"
           /\ result[c].status = "rejected"

\* C16 witness: the seed collaborator threw on its only call and the setup
\* call is Failed.
C16_Witness ==
  /\ calls[1]["SeedStrategy"] = 1
  /\ LastEvent(1) = Event("seed", "throw", "E1")
  /\ pc[1] = "Failed"

\* C17: the handle exposed as output.server is the one the database phase
\* output, and its connection is the one given to the migration and seed
\* strategies; without `database` it is the initialized handle of the
\* server phase (on the adoption path the wrapped supplied server), with
\* `database` it is the handle the database strategy returned and not the
\* server-phase handle.
C17_OutputServerIsDatabasePhaseHandle ==
  \A c \in Calls :
    /\ calls[c]["SqlMigrationStrategy"] = 1 =>
         handed[c].migrate.connection.server = dbOut[c].server
    /\ calls[c]["SeedStrategy"] = 1 =>
         handed[c].seed.connection.server = dbOut[c].server
    /\ pc[c] = "Ready" =>
         LET server == result[c].output.server IN
         /\ server = dbOut[c].server
         /\ IF config[c].database
            THEN /\ server = returned[c].database
                 /\ server # setup[c].output
                 /\ server # NoHandle
            ELSE /\ server = setup[c].output
                 /\ server \in inited[c]
                 /\ config[c].server.isServer => server.from = "supplied"

\* C17 witness: a call with database, migrate and seed resolved with the
\* handle of the database strategy, which both later strategies were given.
C17_Witness ==
  /\ pc[1] = "Ready"
  /\ config[1].database
  /\ calls[1]["SqlMigrationStrategy"] = 1
  /\ calls[1]["SeedStrategy"] = 1
  /\ result[1].output.server = returned[1].database
  /\ handed[1].seed.connection.server = returned[1].database

\* C18: the seed strategy is constructed once with the seed mapping of the
\* configuration as given (tables and rows in their order), output.seed is
\* the list that strategy returned and output.migrate is the list the
\* migration strategy returned.
C18_SeedAndResultsUnchanged ==
  \A c \in Calls :
    /\ calls[c]["SeedStrategy"] <= 1
    /\ calls[c]["SeedStrategy"] = 1 =>
         /\ config[c].seed
         /\ handed[c].seed.seed = config[c].seedData
    /\ pc[c] = "Ready" =>
         /\ config[c].seed =>
              /\ calls[c]["SeedStrategy"] = 1
              /\ result[c].output.seed = returned[c].seed
              /\ returned[c].seed.defined
         /\ config[c].migrate # "undefined" =>
              /\ calls[c]["SqlMigrationStrategy"] = 1
              /\ result[c].output.migrate = returned[c].migrate
              /\ returned[c].migrate.defined

\* C18 witness: a two-table mapping was seeded and both strategies returned
\* two results.
C18_Witness ==
  /\ pc[1] = "Ready"
  /\ Len(handed[1].seed.seed) = 2
  /\ handed[1].seed.seed[1].table = "users"
  /\ result[1].output.seed.results = <<"A", "B">>
  /\ result[1].output.migrate.results = <<"m1", "m2">>

\* C20: the one configuration given to the container strategy has
\* port = the given port (0 included) else 0; user and password = the given
\* values else the call's own random draws; version = the given non-empty
\* value else "latest"; database = the given non-empty databaseName else
\* "<databaseNamePrefix or postgres>-<suffix>"; serverName =
\* "<databaseServerNamePrefix or postgres>-<suffix>", with the call's one
\* random suffix in both names.
C20_DockerConfigDefaults ==
  \A c \in Calls :
    dockerConfig[c] # <<>> =>
      LET o == config[c].server.options
          d == random[c]
          k == dockerConfig[c][1]
          absent == {<<>>, <<"">>}
          dbPrefix == IF o.databaseNamePrefix \in absent
                      THEN "postgres" ELSE o.databaseNamePrefix[1]
          srvPrefix == IF o.databaseServerNamePrefix \in absent
                       THEN "postgres" ELSE o.databaseServerNamePrefix[1]
      IN /\ Len(dockerConfig[c]) = 1
         /\ d.suffix \in RandomStrings
         /\ k.port = IF o.port = <<>> THEN 0 ELSE o.port[1]
         /\ IF o.user = <<>>
            THEN d.user \in RandomStrings /\ k.user = d.user
            ELSE k.user = o.user[1]
         /\ IF o.password = <<>>
            THEN d.password \in RandomStrings /\ k.password = d.password
            ELSE k.password = o.password[1]
         /\ k.version =
              IF o.version \in absent THEN "latest" ELSE o.version[1]
         /\ k.database =
              IF o.databaseName \in absent
              THEN dbPrefix \o "-" \o d.suffix
              ELSE o.databaseName[1]
         /\ k.serverName = srvPrefix \o "-" \o d.suffix

\* C20 witness: a configuration with no optional field got the defaults,
\* one suffix in both names and two different draws for user and password.
C20_Witness ==
  /\ config[1].server.options = NoOptions
  /\ dockerConfig[1] =
       << [ serverName |-> "postgres-r2", port |-> 0, user |-> "r1",
            password |-> "r2", database |-> "postgres-r2",
            version |-> "latest" ] >>

\* C14: with two setup calls in flight, in any interleaving, each call's
\* locals, result and composite teardown hold only the handle and the
\* teardown actions that call acquired, every action a call's teardown has
\* run is that call's own, and a call's container and database are released
\* by no teardown but its own.
C14_CallsShareNoState ==
  \A c \in Calls :
    /\ setup[c].output.call \in {0, c}
    /\ setup[c].teardown.call \in {0, c}
    /\ dbOut[c].server.call \in {0, c}
    /\ dbOut[c].teardown.call \in {0, c}
    /\ handed[c].migrate.connection.server.call \in {0, c}
    /\ handed[c].seed.connection.server.call \in {0, c}
    /\ result[c].status = "resolved" =>
         /\ result[c].output.server.call = c
         /\ \A i \in 1..Len(result[c].teardown) :
              result[c].teardown[i].call = c
    /\ \A i \in 1..Len(tdLog[c]) : tdLog[c][i].action.call = c
    /\ \A p \in {"server", "database"} :
         runs[c][p] =
           Cardinality({i \in 1..Len(tdLog[c]) :
                          tdLog[c][i].action.phase = p})
    /\ tdCalls[c] = 0 =>
         /\ serverState[c] # "stopped"
         /\ databaseState[c] # "dropped"

\* C14 witness: both calls provisioned a container and a database; the
\* teardown of call 1 has released its two resources while those of call 2
\* are untouched.
C14_Witness ==
  /\ pc[1] = "Ready"
  /\ pc[2] = "Ready"
  /\ tdStatus[1] = "resolved"
  /\ serverState[1] = "stopped"
  /\ databaseState[1] = "dropped"
  /\ tdCalls[2] = 0
  /\ serverState[2] = "running"
  /\ databaseState[2] = "created"

\* C15: when two concurrent calls have each built a container configuration
\* from a ServerConfig without optional fields, their server names differ,
\* their database names differ, their users differ and their passwords
\* differ.
C15_GeneratedIdentifiersDistinct ==
  ( /\ dockerConfig[1] # <<>>
    /\ dockerConfig[2] # <<>>
    /\ config[1].server.options = NoOptions
    /\ config[2].server.options = NoOptions )
  => /\ dockerConfig[1][1].serverName # dockerConfig[2][1].serverName
     /\ dockerConfig[1][1].database # dockerConfig[2][1].database
     /\ dockerConfig[1][1].user # dockerConfig[2][1].user
     /\ dockerConfig[1][1].password # dockerConfig[2][1].password

\* C19: every setup call that was made eventually is Ready or Failed; a
\* call is Ready exactly when its promise resolved and Failed exactly when
\* it rejected, and once in either state it never leaves it nor changes
\* its settled promise.
C19_SetupReachesOneTerminalState ==
  /\ \A c \in SingleCall :
       (pc[c] # "idle") ~> (pc[c] \in {"Ready", "Failed"})
  /\ [](\A c \in Calls :
         /\ pc[c] = "Ready" <=> result[c].status = "resolved"
         /\ pc[c] = "Failed" <=> result[c].status = "rejected")
  /\ [][\A c \in Calls :
          pc[c] \in {"Ready", "Failed"} =>
            pc'[c] = pc[c] /\ result'[c] = result[c]]_vars

\* C19 witness: a call that had to wait for all five collaborators is Ready.
C19_Witness ==
  /\ pc[1] = "Ready"
  /\ result[1].status = "resolved"
  /\ \A p \in Range(Phases) : Started(1, p)

\* C21: the promise of a setup call carries a composite teardown exactly
\* when the call is Ready, and then the composite is two actions: the one
\* of the database phase (a no-op when `database` is omitted, the drop of
\* the created database otherwise) followed by the one of the server
\* phase, whatever the migration and seed phases did.
C21_CompositeIsDatabaseThenServer ==
  \A c \in Calls :
    /\ result[c].teardown # <<>> <=> pc[c] = "Ready"
    /\ pc[c] = "Ready" =>
         LET t == result[c].teardown IN
         /\ Len(t) = 2
         /\ t[1] = dbOut[c].teardown
         /\ t[1].phase = "database"
         /\ t[1].effect =
              IF config[c].database THEN "dropDatabase" ELSE "none"
         /\ t[2] = setup[c].teardown
         /\ t[2].phase = "server"

\* C21 witness: a call that ran migrations and a seed but created no
\* database resolved with a no-op followed by the container's teardown.
C21_Witness ==
  /\ pc[1] = "Ready"
  /\ ~config[1].database
  /\ calls[1]["SqlMigrationStrategy"] = 1
  /\ calls[1]["SeedStrategy"] = 1
  /\ Len(result[1].teardown) = 2
  /\ result[1].teardown[1].effect = "none"
  /\ result[1].teardown[2].effect = "stopServer"

\* C22: when the argument names some but not all packages, only the named
\* packages are built, the cleanup loop touches only output directories of
\* packages built in this run and no missing path ends the script; when a
\* non-empty argument names no package, the script fails with 'Could not
\* find package' and has built nothing.
C22_CleanupOnlyBuiltPackages ==
  LET all == 1..Len(packages)
      selected == {i \in all : pkgToBuild = <<packages[i].name>>}
  IN /\ (selected # {} /\ selected # all) =>
          /\ Range(built) \subseteq selected
          /\ Range(cleaned) \subseteq Range(built)
          /\ buildError # "NotFound"
     /\ (pkgToBuild \notin {<<>>, <<"">>} /\ selected = {}) =>
          /\ built = <<>>
          /\ buildPc \in {"emptyDir", "filter", "failed"}
          /\ buildPc = "failed" => buildError = "Could not find package"

====
